---- MODULE Spec2Model ----
(***************************************************************************)
(* A model of vndb-kana-api: the filter builders (src/src/api/errors.ts,   *)
(* lines 230-431, originally filters.ts), the error classes, the retry     *)
(* engine withRetry and its backoff computation (src/src/api/errors.ts,    *)
(* lines 5-228), the client (src/src/api/client.ts), and the play-time    *)
(* formatters and the RateLimiter (src/src/api/utils.ts).                  *)
(*                                                                         *)
(* Eight specifications share the module.  Each one moves only its own     *)
(* variables and keeps the others at their initial value:                  *)
(*   SpecFilter    one call of a filter builder per step                   *)
(*   Spec          one run of withRetry, attempt by attempt                *)
(*   SpecBackoff   calculateBackoffDelay applied to bounded inputs         *)
(*   SpecClassify  the getters and type-check helpers applied to a value   *)
(*   SpecPages     one run of getAllResults, page by page                  *)
(*   SpecClient    a VndbClient and the calls made on it                   *)
(*   SpecFormat    getLengthCategory and formatPlayTime applied once       *)
(*   SpecLimiter   a RateLimiter and the calls its callers make            *)
(***************************************************************************)
EXTENDS Integers, Sequences, FiniteSets, TLC

VARIABLES
    fcall,      \* the filter builder invoked last and its arguments
    fresult,    \* what that call returned (NoValue when it returned nothing)
    fthrown,    \* the error class that call threw ("none" when it returned)
    config,     \* withRetry: the RetryConfig of the run
    pc,         \* withRetry: position in the loop
    attempt,    \* withRetry: the loop variable
    lastError,  \* withRetry: the local lastError
    outcomes,   \* withRetry: per invocation of fn, the error it threw or Resolved
    sleeps,     \* withRetry: the argument of every sleep() awaited so far
    thrownError,\* withRetry: what the run threw to its caller
    returned,   \* withRetry: what the run returned to its caller
    cancelled,  \* withRetry: the number of invocations made when the caller
                \* gave the call up during a wait (Undefined until then)
    bo,         \* calculateBackoffDelay: the last call and its result
    cl,         \* error classification: the value examined and what each
                \* getter and type-check helper answered for it
    pg,         \* getAllResults: the run's locals and the calls it made
    client,     \* VndbClient: its configuration, the clock, the HTTP
                \* requests issued and what the last call gave its caller
    fmt,        \* formatters: the function called last, its argument and
                \* the string it returned
    lim         \* RateLimiter: its fields, the clock, every timestamp ever
                \* recorded, each caller's position and the last answers

filterVars == <<fcall, fresult, fthrown>>
retryVars == <<config, pc, attempt, lastError, outcomes, sleeps, thrownError,
               returned, cancelled>>
vars == <<fcall, fresult, fthrown, config, pc, attempt, lastError, outcomes,
          sleeps, thrownError, returned, cancelled, bo, cl, pg, client, fmt,
          lim>>

(***************************************************************************)
(* JavaScript values.  An optional argument or field is a sequence of      *)
(* length at most one: Undefined when absent, Some(x) when given.          *)
(***************************************************************************)
Undefined == <<>>
Some(x) == <<x>>
NoValue == <<"no value">>

\* All sequences over S of length lo..hi.
SeqsOf(S, lo, hi) == UNION {[1..k -> S] : k \in lo..hi}

(***************************************************************************)
(* Filter builders                                                         *)
(***************************************************************************)

\* A variant of filter() with its first two elements in the wrong order.
filter_swapped(field, operator, value) == <<operator, field, value>>

\* filter(field, operator, value): the tuple of its three arguments.
filter(field, operator, value) == <<field, operator, value>>

\* A variant of and() that collapses a single child.
and_collapsing(filters) ==
    IF Len(filters) = 1 THEN filters[1] ELSE <<"and">> \o filters

\* and(...filters): ["and", ...filters].
and(filters) == <<"and">> \o filters

\* A variant of or() that emits its children in reverse order.
or_reversed(filters) ==
    <<"or">> \o [i \in 1..Len(filters) |-> filters[Len(filters) + 1 - i]]

\* or(...filters): ["or", ...filters].
or(filters) == <<"or">> \o filters

\* ids.map((id) => filter(field, "=", id))
MapEq(field, xs) == [i \in 1..Len(xs) |-> filter(field, "=", xs[i])]

\* The shared body of byId, byLanguage and byPlatform.  The argument is
\* [type |-> "string", val |-> s] or [type |-> "array", val |-> <<...>>],
\* type being what typeof distinguishes.
ByFieldEq(field, arg) ==
    IF arg.type = "string" THEN filter(field, "=", arg.val)
    ELSE IF Len(arg.val) = 1 THEN filter(field, "=", arg.val[1])
    ELSE or(MapEq(field, arg.val))

\* A variant of byId that has no single-element case.
byId_nocollapse(ids) ==
    IF ids.type = "string" THEN filter("id", "=", ids.val)
    ELSE or(MapEq("id", ids.val))

byId(ids) == ByFieldEq("id", ids)

byLanguage(langs) == ByFieldEq("lang", langs)

byPlatform(platforms) == ByFieldEq("platform", platforms)

\* JavaScript truthiness of an optional string: undefined and "" are falsy.
TruthyStr(s) == s # Undefined /\ s[1] # ""

\* filters.length === 1 ? filters[0] : and(...filters)
OneOrAnd(filters) == IF Len(filters) = 1 THEN filters[1] ELSE and(filters)

\* byDateRange(after?, before?): a bound is used when it is truthy.
byDateRange(after, before) ==
    OneOrAnd(
        (IF TruthyStr(after) THEN <<filter("released", ">=", after[1])>> ELSE <<>>)
        \o (IF TruthyStr(before) THEN <<filter("released", "<=", before[1])>> ELSE <<>>))

\* JavaScript truthiness of an optional number: undefined and 0 are falsy.
TruthyNum(n) == n # Undefined /\ n[1] # 0

\* A variant of byRatingRange that tests its bounds for truthiness.
byRatingRange_truthy(min, max) ==
    OneOrAnd(
        (IF TruthyNum(min) THEN <<filter("rating", ">=", min[1])>> ELSE <<>>)
        \o (IF TruthyNum(max) THEN <<filter("rating", "<=", max[1])>> ELSE <<>>))

\* byRatingRange(min?, max?): a bound is used when it is !== undefined.
byRatingRange(min, max) ==
    OneOrAnd(
        (IF min # Undefined THEN <<filter("rating", ">=", min[1])>> ELSE <<>>)
        \o (IF max # Undefined THEN <<filter("rating", "<=", max[1])>> ELSE <<>>))

(***************************************************************************)
(* Inputs of the filter builders                                           *)
(***************************************************************************)
MaxChildren == 3
MaxIds == 3

\* Child filters handed to and()/or(): comparisons and a nested combinator.
FilterPool ==
    { filter("id", "=", "v17"),
      filter("lang", "=", "en"),
      or(<<filter("id", "=", "v17"), filter("id", "=", "v11")>>) }

Names == {"v17", "v11"}
Dates == {"", "2020-01-01", "2023-12-31"}
Ratings == {0, 80, 95}
Fields == {"", "id", "search"}
SupportedOperators == {"=", "!=", ">", ">=", "<", "<="}
Operators == SupportedOperators \cup {"~"}
Values == {"v17", ""}

OptionOf(S) == {Undefined} \cup {Some(x) : x \in S}
NameArgs ==
    {[type |-> "string", val |-> n] : n \in Names \cup {""}}
    \cup {[type |-> "array", val |-> xs] : xs \in SeqsOf(Names, 0, MaxIds)}

(***************************************************************************)
(* One step of SpecFilter: a caller invokes one builder.  No builder has a *)
(* throw statement, so every call returns and fthrown stays "none".        *)
(***************************************************************************)
CallFilter ==
    \E f \in Fields, o \in Operators, v \in Values :
        /\ fcall' = [fn |-> "filter", field |-> f, operator |-> o, value |-> v]
        /\ fresult' = filter(f, o, v)
        /\ fthrown' = "none"
        /\ UNCHANGED <<retryVars, bo, cl, pg, client, fmt, lim>>

CallAnd ==
    \E fs \in SeqsOf(FilterPool, 0, MaxChildren) :
        /\ fcall' = [fn |-> "and", filters |-> fs]
        /\ fresult' = and(fs)
        /\ fthrown' = "none"
        /\ UNCHANGED <<retryVars, bo, cl, pg, client, fmt, lim>>

CallOr ==
    \E fs \in SeqsOf(FilterPool, 0, MaxChildren) :
        /\ fcall' = [fn |-> "or", filters |-> fs]
        /\ fresult' = or(fs)
        /\ fthrown' = "none"
        /\ UNCHANGED <<retryVars, bo, cl, pg, client, fmt, lim>>

CallById ==
    \E a \in NameArgs :
        /\ fcall' = [fn |-> "byId", field |-> "id", arg |-> a]
        /\ fresult' = byId(a)
        /\ fthrown' = "none"
        /\ UNCHANGED <<retryVars, bo, cl, pg, client, fmt, lim>>

CallByLanguage ==
    \E a \in NameArgs :
        /\ fcall' = [fn |-> "byLanguage", field |-> "lang", arg |-> a]
        /\ fresult' = byLanguage(a)
        /\ fthrown' = "none"
        /\ UNCHANGED <<retryVars, bo, cl, pg, client, fmt, lim>>

CallByPlatform ==
    \E a \in NameArgs :
        /\ fcall' = [fn |-> "byPlatform", field |-> "platform", arg |-> a]
        /\ fresult' = byPlatform(a)
        /\ fthrown' = "none"
        /\ UNCHANGED <<retryVars, bo, cl, pg, client, fmt, lim>>

CallByDateRange ==
    \E a \in OptionOf(Dates), b \in OptionOf(Dates) :
        /\ fcall' = [fn |-> "byDateRange", field |-> "released",
                     lower |-> a, upper |-> b]
        /\ fresult' = byDateRange(a, b)
        /\ fthrown' = "none"
        /\ UNCHANGED <<retryVars, bo, cl, pg, client, fmt, lim>>

CallByRatingRange ==
    \E a \in OptionOf(Ratings), b \in OptionOf(Ratings) :
        /\ fcall' = [fn |-> "byRatingRange", field |-> "rating",
                     lower |-> a, upper |-> b]
        /\ fresult' = byRatingRange(a, b)
        /\ fthrown' = "none"
        /\ UNCHANGED <<retryVars, bo, cl, pg, client, fmt, lim>>

FilterNext ==
    \/ CallFilter
    \/ CallAnd
    \/ CallOr
    \/ CallById
    \/ CallByLanguage
    \/ CallByPlatform
    \/ CallByDateRange
    \/ CallByRatingRange

(***************************************************************************)
(* Error values (src/src/api/errors.ts, lines 5-136).  An error is a       *)
(* record of its class and of the fields the retry engine reads.           *)
(***************************************************************************)
MkError(class, status, code, retryAfter) ==
    [class |-> class, status |-> status, code |-> code, retryAfter |-> retryAfter]

\* new VndbApiError(message, status)
VndbApiError(status) == MkError("VndbApiError", status, Undefined, Undefined)

\* new VndbValidationError(message): extends Error, no status, no code.
VndbValidationError ==
    MkError("VndbValidationError", Undefined, Undefined, Undefined)

\* new VndbRateLimitError(message, retryAfter): super(message, 429).
VndbRateLimitError(retryAfter) ==
    MkError("VndbRateLimitError", Some(429), Undefined, retryAfter)

\* new VndbAuthenticationError(message): super(message, 401).
VndbAuthenticationError ==
    MkError("VndbAuthenticationError", Some(401), Undefined, Undefined)

\* A transport failure: a plain Error object carrying a code.
TransportError(code) == MkError("Error", Undefined, Some(code), Undefined)

\* error instanceof VndbApiError: the class or one of its two subclasses.
isVndbError(error) ==
    error.class \in {"VndbApiError", "VndbRateLimitError", "VndbAuthenticationError"}

\* get isRateLimit: this.status === 429
isRateLimit(error) == error.status = Some(429)

\* get isServerError: this.status !== undefined && this.status >= 500
isServerError(error) == error.status # Undefined /\ error.status[1] >= 500

\* isRateLimitError(error)
isRateLimitError(error) ==
    \/ error.class = "VndbRateLimitError"
    \/ (isVndbError(error) /\ isRateLimit(error))

\* A variant of the default predicate that retries every error that is not
\* a VndbApiError.
retryCondition_retryUnclassified(error) ==
    IF isVndbError(error)
    THEN isServerError(error) \/ isRateLimit(error)
    ELSE TRUE

\* defaultRetryConfig.retryCondition
defaultRetryCondition(error) ==
    IF isVndbError(error)
    THEN isServerError(error) \/ isRateLimit(error)
    ELSE /\ error.class \notin {"null", "primitive"}
         /\ error.code # Undefined
         /\ error.code[1] \in {"ECONNRESET", "ENOTFOUND", "ECONNREFUSED"}

(***************************************************************************)
(* JavaScript numbers, as far as the backoff computation needs them: the   *)
(* non-negative integers up to FloatMax, Infinity and NaN.  FloatMax       *)
(* stands for Number.MAX_VALUE: a product above it is Infinity.  Every     *)
(* maxDelay of the model is below FloatMax, so a product that overflows    *)
(* here is clamped exactly as one that overflows a double.                 *)
(***************************************************************************)
FloatMax == 65536

Fin(n) == [k |-> "fin", v |-> n]
Infinity == [k |-> "inf", v |-> 0]
NaN == [k |-> "nan", v |-> 0]

\* a * b on non-negative numbers: NaN is contagious, 0 * Infinity is NaN,
\* a product above FloatMax is Infinity.
NumMul(a, b) ==
    IF a.k = "nan" \/ b.k = "nan" THEN NaN
    ELSE IF a.k = "inf" \/ b.k = "inf"
         THEN IF (a.k = "fin" /\ a.v = 0) \/ (b.k = "fin" /\ b.v = 0)
              THEN NaN ELSE Infinity
    ELSE IF a.v = 0 \/ b.v = 0 THEN Fin(0)
    ELSE IF a.v > FloatMax \div b.v THEN Infinity
    ELSE Fin(a.v * b.v)

\* Math.pow(base, exponent) for a non-negative integer base and exponent.
RECURSIVE MathPow(_, _)
MathPow(base, exponent) ==
    IF exponent = 0 THEN Fin(1)
    ELSE NumMul(MathPow(base, exponent - 1), Fin(base))

\* Math.min(a, b): NaN when either argument is NaN.
MathMin(a, b) ==
    IF a.k = "nan" \/ b.k = "nan" THEN NaN
    ELSE IF a.k = "inf" THEN b
    ELSE IF b.k = "inf" THEN a
    ELSE IF a.v <= b.v THEN a ELSE b

\* A variant of calculateBackoffDelay that leaves out the Math.min.
calculateBackoffDelay_uncapped(n, cfg) ==
    NumMul(Fin(cfg.baseDelay), MathPow(cfg.backoffMultiplier, n - 1))

\* calculateBackoffDelay(attempt, config)
calculateBackoffDelay(n, cfg) ==
    MathMin(NumMul(Fin(cfg.baseDelay), MathPow(cfg.backoffMultiplier, n - 1)),
            Fin(cfg.maxDelay))

(***************************************************************************)
(* withRetry(fn, config) (src/src/api/errors.ts, lines 193-228)            *)
(***************************************************************************)
MaxRetriesBound == 3

defaultRetryConfig ==
    [maxRetries |-> 3, baseDelay |-> 1000, maxDelay |-> 30000,
     backoffMultiplier |-> 2, retryCondition |-> "default"]

\* The configurations a caller passes: maxRetries varies (a negative one
\* never enters the loop), the delays are the defaults or a short schedule,
\* and retryCondition is the default predicate or is left out.
RetryConfigs ==
    {[maxRetries |-> m, baseDelay |-> d.base, maxDelay |-> d.max,
      backoffMultiplier |-> d.mult, retryCondition |-> rc] :
        m \in (-1)..MaxRetriesBound,
        d \in {[base |-> 1000, max |-> 30000, mult |-> 2],
               [base |-> 500, max |-> 1000, mult |-> 3]},
        rc \in {"default", "absent"}}

\* An invocation of fn that resolved with value v.
Resolved(v) ==
    [class |-> "none", status |-> Undefined, code |-> Undefined,
     retryAfter |-> Undefined, value |-> v]

\* The values fn may resolve with.
ResultValues == {"r1", "r2"}

\* What one invocation of fn may throw.
ErrorPool ==
    { VndbApiError(Some(500)), VndbApiError(Some(503)), VndbApiError(Some(404)),
      VndbRateLimitError(Undefined), VndbRateLimitError(Some(5)),
      VndbRateLimitError(Some(0)),
      VndbValidationError, TransportError("ECONNRESET") }

\* The loop condition: attempt <= config.maxRetries + 1
LoopCondition(n, cfg) == n <= cfg.maxRetries + 1

\* A variant of the last-attempt test that is off by one.
LastAttempt_offByOne(n, cfg) == n >= cfg.maxRetries

\* "Don't retry on the last attempt": attempt > config.maxRetries
LastAttempt(n, cfg) == n > cfg.maxRetries

\* A variant of the rejection test that never rejects.
RetryRejected_never(cfg, error) == FALSE

\* config.retryCondition && !config.retryCondition(error)
RetryRejected(cfg, error) ==
    cfg.retryCondition # "absent" /\ ~defaultRetryCondition(error)

\* The argument of the sleep() awaited before the next attempt: the hint of
\* a rate-limit error when it is truthy, the computed delay otherwise.
SleepArgument(n, cfg, error) ==
    IF isRateLimitError(error) /\ TruthyNum(error.retryAfter)
    THEN NumMul(Fin(error.retryAfter[1]), Fin(1000))
    ELSE calculateBackoffDelay(n, cfg)

\* A variant of the catch block's assignment that keeps the first error.
NextLastError_keepFirst(previous, error) ==
    IF previous = Undefined THEN Some(error) ELSE previous

\* lastError = error
NextLastError(previous, error) == Some(error)

RetryInit ==
    /\ config \in RetryConfigs
    /\ pc = "loop"
    /\ attempt = 1
    /\ lastError = Undefined
    /\ outcomes = <<>>
    /\ sleeps = <<>>
    /\ thrownError = Undefined
    /\ returned = Undefined
    /\ cancelled = Undefined

\* The loop body, when fn resolves: return await fn().
InvokeSucceeds ==
    /\ pc = "loop"
    /\ LoopCondition(attempt, config)
    /\ \E v \in ResultValues :
        /\ outcomes' = Append(outcomes, Resolved(v))
        /\ returned' = Some(v)
    /\ pc' = "returned"
    /\ UNCHANGED <<config, cancelled, attempt, lastError, sleeps, thrownError, filterVars,
                   bo, cl, pg, client, fmt, lim>>

\* The loop body, when fn rejects: the catch block up to the break or the
\* start of the sleep.
InvokeFails ==
    /\ pc = "loop"
    /\ LoopCondition(attempt, config)
    /\ \E error \in ErrorPool :
        /\ outcomes' = Append(outcomes, error)
        /\ lastError' = NextLastError(lastError, error)
        /\ IF LastAttempt(attempt, config) \/ RetryRejected(config, error)
           THEN /\ pc' = "thrown"
                /\ thrownError' = lastError'
                /\ UNCHANGED sleeps
           ELSE /\ pc' = "sleeping"
                /\ sleeps' = Append(sleeps, SleepArgument(attempt, config, error))
                /\ UNCHANGED thrownError
    /\ UNCHANGED <<config, cancelled, attempt, returned, filterVars, bo, cl, pg, client, fmt, lim>>

\* The timer of sleep() fires: attempt++ and back to the loop condition.
WakeUp ==
    /\ pc = "sleeping"
    /\ attempt' = attempt + 1
    /\ pc' = "loop"
    /\ UNCHANGED <<config, cancelled, lastError, outcomes, sleeps, thrownError, returned,
                   filterVars, bo, cl, pg, client, fmt, lim>>

\* The loop condition fails: throw lastError.
LoopExit ==
    /\ pc = "loop"
    /\ ~LoopCondition(attempt, config)
    /\ pc' = "thrown"
    /\ thrownError' = lastError
    /\ UNCHANGED <<config, cancelled, attempt, lastError, outcomes, sleeps, returned,
                   filterVars, bo, cl, pg, client, fmt, lim>>

\* The caller gives the call up while withRetry is suspended.  withRetry
\* takes no signal and sleep() keeps no handle of its timer, so nothing in
\* the run changes: only the moment is noted.
Cancel ==
    /\ pc = "sleeping"
    /\ cancelled = Undefined
    /\ cancelled' = Some(Len(outcomes))
    /\ UNCHANGED <<config, pc, attempt, lastError, outcomes, sleeps,
                   thrownError, returned, filterVars, bo, cl, pg, client, fmt,
                   lim>>

RetryNext ==
    \/ InvokeSucceeds
    \/ InvokeFails
    \/ WakeUp
    \/ LoopExit
    \/ Cancel

(***************************************************************************)
(* calculateBackoffDelay applied attempt by attempt to one configuration   *)
(***************************************************************************)
MaxAttempt == 20

BackoffConfigs ==
    {[maxRetries |-> 3, baseDelay |-> b, maxDelay |-> mx,
      backoffMultiplier |-> m, retryCondition |-> "default"] :
        b \in {0, 1, 1000}, mx \in {1000, 30000}, m \in {1, 2, 3}}

BackoffInit ==
    /\ bo \in {[config |-> c, attempt |-> 0, delays |-> <<>>] : c \in BackoffConfigs}

\* The delay of the next attempt number is computed and recorded.
ComputeDelay ==
    /\ bo.attempt < MaxAttempt
    /\ bo' = [bo EXCEPT !.attempt = @ + 1,
                        !.delays = Append(@, calculateBackoffDelay(bo.attempt + 1,
                                                                   bo.config))]
    /\ UNCHANGED <<filterVars, retryVars, cl, pg, client, fmt, lim>>

BackoffNext == ComputeDelay

(***************************************************************************)
(* Error classification (src/src/api/errors.ts, lines 28-136): the getters *)
(* of VndbApiError, the type-check helpers and the default retry predicate *)
(* applied to one value.                                                   *)
(***************************************************************************)
\* get isAuthError: this.status === 401
VndbApiError_isAuthError(error) == error.status = Some(401)

\* get isClientError: status !== undefined && status >= 400 && status < 500
isClientError(error) ==
    error.status # Undefined /\ error.status[1] >= 400 /\ error.status[1] < 500

\* A variant of the helper that recognises only the dedicated subclass.
isAuthError_instanceOnly(error) == error.class = "VndbAuthenticationError"

\* isAuthError(error)
isAuthError(error) ==
    \/ error.class = "VndbAuthenticationError"
    \/ (isVndbError(error) /\ VndbApiError_isAuthError(error))

RateLimitText == "Too many requests. Please wait before making more API calls."
AuthText == "Authentication failed. Please check your API token."
BadRequestText == "Invalid request. Please check your query parameters."
NotFoundText == "API endpoint not found."
ServerErrorText == "Server error. Please try again later."

\* get friendlyMessage, for an error constructed with the given message.
friendlyMessage(error, message) ==
    IF isRateLimit(error) THEN RateLimitText
    ELSE IF VndbApiError_isAuthError(error) THEN AuthText
    ELSE IF error.status = Some(400) THEN BadRequestText
    ELSE IF error.status = Some(404) THEN NotFoundText
    ELSE IF isServerError(error) THEN ServerErrorText
    ELSE message

\* Values that are no objects: null, and a primitive such as a string.
NullValue == MkError("null", Undefined, Undefined, Undefined)
PrimitiveValue == MkError("primitive", Undefined, Undefined, Undefined)

Statuses ==
    {0, 200, 302, 399, 400, 401, 403, 404, 428, 429, 430, 499, 500, 503, 599,
     600, 700}
Codes == {"ECONNRESET", "ENOTFOUND", "ECONNREFUSED", "ETIMEDOUT"}
Messages == {"", "custom message", "not found"}

\* The values a caller may hand to the helpers: classified errors of every
\* status with and without a code, the two subclasses, a validation error,
\* plain objects with or without a status or a code, null and a primitive.
ErrorValues ==
    {MkError("VndbApiError", st, cd, Undefined) :
        st \in OptionOf(Statuses), cd \in {Undefined, Some("ECONNRESET")}}
    \cup {VndbRateLimitError(ra) : ra \in {Undefined, Some(0), Some(5)}}
    \cup {VndbAuthenticationError, VndbValidationError, NullValue, PrimitiveValue}
    \cup {MkError("Error", st, cd, Undefined) :
            st \in {Undefined, Some(401), Some(429), Some(500)},
            cd \in OptionOf(Codes)}

ClassifyIdle == cl = [examined |-> FALSE]

\* A caller examines one value: every getter (for a classified error) and
\* every helper is evaluated on it.
Classify ==
    \E e \in ErrorValues, m \in Messages :
        /\ cl' = [examined |-> TRUE,
                  error |-> e,
                  message |-> m,
                  isVndbError |-> isVndbError(e),
                  isRateLimit |-> isRateLimit(e),
                  isAuthErrorGetter |-> VndbApiError_isAuthError(e),
                  isClientError |-> isClientError(e),
                  isServerError |-> isServerError(e),
                  friendlyMessage |-> friendlyMessage(e, m),
                  isRateLimitError |-> isRateLimitError(e),
                  isAuthError |-> isAuthError(e),
                  retryCondition |-> defaultRetryCondition(e)]
        /\ UNCHANGED <<filterVars, retryVars, bo, pg, client, fmt, lim>>

ClassifyNext == Classify

(***************************************************************************)
(* VndbClient.getAllResults(queryFn, maxPages)                             *)
(* (src/src/api/client.ts, lines 525-541)                                  *)
(***************************************************************************)
MaxPagesBound == 3
MaxPageSize == 2

Items == {"a", "b"}

\* What queryFn may resolve with: a page of results and the more flag.
Responses ==
    {[results |-> rs, more |-> m] :
        rs \in SeqsOf(Items, 0, MaxPageSize), m \in BOOLEAN}

\* A variant of the loop condition that ignores hasMore.
PageLoopCondition_ignoreMore(hasMore, page, maxPages) == page <= maxPages

\* while (hasMore && page <= maxPages)
PageLoopCondition(hasMore, page, maxPages) == hasMore /\ page <= maxPages

PagesIdle ==
    pg = [pc |-> "idle", maxPages |-> 0, page |-> 1, hasMore |-> TRUE,
          results |-> <<>>, calls |-> <<>>, responses |-> <<>>,
          returned |-> Undefined]

PagesInit ==
    pg \in {[pc |-> "loop", maxPages |-> mp, page |-> 1, hasMore |-> TRUE,
             results |-> <<>>, calls |-> <<>>, responses |-> <<>>,
             returned |-> Undefined] : mp \in (-1)..MaxPagesBound}

\* The loop condition holds: queryFn(page) is called and awaited.
CallQueryFn ==
    /\ pg.pc = "loop"
    /\ PageLoopCondition(pg.hasMore, pg.page, pg.maxPages)
    /\ pg' = [pg EXCEPT !.pc = "awaiting", !.calls = Append(@, pg.page)]
    /\ UNCHANGED <<filterVars, retryVars, bo, cl, client, fmt, lim>>

\* queryFn resolves: push its results, take its more flag, page++.
QueryFnResolves ==
    /\ pg.pc = "awaiting"
    /\ \E r \in Responses :
        pg' = [pg EXCEPT !.pc = "loop",
                         !.responses = Append(@, r),
                         !.results = @ \o r.results,
                         !.hasMore = r.more,
                         !.page = @ + 1]
    /\ UNCHANGED <<filterVars, retryVars, bo, cl, client, fmt, lim>>

\* queryFn rejects: the await throws and getAllResults rejects with it.
QueryFnRejects ==
    /\ pg.pc = "awaiting"
    /\ pg' = [pg EXCEPT !.pc = "rejected"]
    /\ UNCHANGED <<filterVars, retryVars, bo, cl, client, fmt, lim>>

\* The loop condition fails: return results.
ReturnResults ==
    /\ pg.pc = "loop"
    /\ ~PageLoopCondition(pg.hasMore, pg.page, pg.maxPages)
    /\ pg' = [pg EXCEPT !.pc = "returned", !.returned = Some(pg.results)]
    /\ UNCHANGED <<filterVars, retryVars, bo, cl, client, fmt, lim>>

PagesNext ==
    \/ CallQueryFn
    \/ QueryFnResolves
    \/ QueryFnRejects
    \/ ReturnResults

(***************************************************************************)
(* VndbClient (src/src/api/client.ts): the constructor and its response    *)
(* interceptor (lines 65-101), an endpoint call (lines 126-129 and alike)  *)
(* and getVisualNovelsByIds (lines 500-517).  Time is a counter of         *)
(* milliseconds; an id "v<n>" is the number n.                             *)
(***************************************************************************)
MaxClock == 3
MaxSent == 4
MaxRate == 2
MaxIdCount == 102
PageSizeCap == 100

\* The rateLimit option handed to the constructor.
RateLimits ==
    {[requests |-> r, window |-> w] : r \in 1..MaxRate, w \in {2, 3}}

\* How an HTTP request may fail: a response with an error status, or no
\* response at all and a transport code.
HttpFailures ==
    {[status |-> Some(st), code |-> Undefined] : st \in {401, 404, 429, 500}}
    \cup {[status |-> Undefined, code |-> Some(cd)] :
            cd \in {"ECONNRESET", "ENOTFOUND", "ECONNREFUSED"}}

\* The interceptor's rejection handler: a new Error carrying the status and
\* the data of the response; the code of the failure is not copied.
Intercept(failure) == MkError("Error", failure.status, Undefined, Undefined)

\* ids.length === 1 ? ["id", "=", ids[0]] : ["or", ...ids.map(...)]
IdsFilter(ids) ==
    IF Len(ids) = 1 THEN <<"id", "=", ids[1]>>
    ELSE <<"or">> \o [i \in 1..Len(ids) |-> <<"id", "=", ids[i]>>]

\* Math.min(a, b) on integers.
MinInt(a, b) == IF a <= b THEN a ELSE b

\* The ids a filter built by IdsFilter asks for.
FilterIds(f) ==
    IF f[1] = "or" THEN {f[i][3] : i \in 2..Len(f)} ELSE {f[3]}

\* POST /vn: the ids of the first `results` records the filter matches, in
\* id order (the records of one page; no further page is asked for).
ServerPage(f, results, existing) ==
    LET matching == FilterIds(f) \cap existing
    IN  {x \in matching : Cardinality({y \in matching : y < x}) < results}

\* The id lists a caller passes: the first n ids, or one id twice.
IdLists ==
    {[i \in 1..n |-> i] : n \in {0, 1, 2, 3, PageSizeCap, MaxIdCount}}
    \cup {<<7, 7>>}

\* What exists on the server.
ServerContents == {1..MaxIdCount, {1, 7}, {}}

ClientIdle ==
    client = [rateLimit |-> [requests |-> 200, window |-> 300000], clock |-> 0,
              sent |-> <<>>, last |-> [kind |-> "idle"]]

\* new VndbClient({rateLimit}): the option is stored in this.config.
ClientInit ==
    client \in {[rateLimit |-> rl, clock |-> 0, sent |-> <<>>,
                 last |-> [kind |-> "none"]] : rl \in RateLimits}

\* Time passes.
Tick ==
    /\ client.clock < MaxClock
    /\ client' = [client EXCEPT !.clock = @ + 1]
    /\ UNCHANGED <<filterVars, retryVars, bo, cl, pg, fmt, lim>>

\* An endpoint method: await this.http.<verb>(...) is issued at once and
\* its response is returned.
RequestSucceeds ==
    /\ Len(client.sent) < MaxSent
    /\ client' = [client EXCEPT !.sent = Append(@, client.clock),
                                !.last = [kind |-> "response"]]
    /\ UNCHANGED <<filterVars, retryVars, bo, cl, pg, fmt, lim>>

\* An endpoint method whose request fails: the interceptor's error reaches
\* the caller.
RequestFails ==
    /\ Len(client.sent) < MaxSent
    /\ \E failure \in HttpFailures :
        client' = [client EXCEPT !.sent = Append(@, client.clock),
                                 !.last = [kind |-> "error",
                                           failure |-> failure,
                                           caught |-> Intercept(failure)]]
    /\ UNCHANGED <<filterVars, retryVars, bo, cl, pg, fmt, lim>>

\* getVisualNovelsByIds([]): returns [] before any request.
ByIdsEmpty ==
    /\ client' = [client EXCEPT !.last = [kind |-> "byIds", ids |-> <<>>,
                                          existing |-> {}, requests |-> 0,
                                          filters |-> Undefined,
                                          returned |-> {}]]
    /\ UNCHANGED <<filterVars, retryVars, bo, cl, pg, fmt, lim>>

\* getVisualNovelsByIds(ids) for a non-empty list: one POST /vn with the
\* filter and results = Math.min(ids.length, 100); its results are returned.
ByIdsQuery ==
    /\ Len(client.sent) < MaxSent
    /\ \E ids \in IdLists \ {<<>>}, existing \in ServerContents :
        client' = [client EXCEPT
            !.sent = Append(@, client.clock),
            !.last = [kind |-> "byIds", ids |-> ids, existing |-> existing,
                      requests |-> 1,
                      filters |-> Some(IdsFilter(ids)),
                      returned |-> ServerPage(IdsFilter(ids),
                                              MinInt(Len(ids), PageSizeCap),
                                              existing)]]
    /\ UNCHANGED <<filterVars, retryVars, bo, cl, pg, fmt, lim>>

ClientNext ==
    \/ Tick
    \/ RequestSucceeds
    \/ RequestFails
    \/ ByIdsEmpty
    \/ ByIdsQuery

(***************************************************************************)
(* The play-time formatters (src/src/api/utils.ts, lines 96-135).  A       *)
(* string is built as the template literal builds it.                      *)
(***************************************************************************)
MaxMinutes == 3100

\* getLengthCategory(minutes); null is Undefined here.
getLengthCategory(minutes) ==
    IF minutes = Undefined THEN "Unknown"
    ELSE IF minutes[1] < 120 THEN "Very short"
    ELSE IF minutes[1] < 600 THEN "Short"
    ELSE IF minutes[1] < 1800 THEN "Medium"
    ELSE IF minutes[1] < 3000 THEN "Long"
    ELSE "Very long"

\* `${n} unit${n !== 1 ? "s" : ""}`
Plural(n, unit) == ToString(n) \o " " \o unit \o (IF n # 1 THEN "s" ELSE "")

\* formatPlayTime(minutes) for null or a whole number of minutes >= 0.
formatPlayTime(minutes) ==
    IF minutes = Undefined THEN "Unknown"
    ELSE IF minutes[1] < 60 THEN Plural(minutes[1], "minute")
    ELSE LET hours == minutes[1] \div 60
             remainingMinutes == minutes[1] % 60
         IN  IF hours < 24
             THEN IF remainingMinutes = 0 THEN Plural(hours, "hour")
                  ELSE ToString(hours) \o "h " \o ToString(remainingMinutes) \o "m"
             ELSE LET days == hours \div 24
                      remainingHours == hours % 24
                  IN  IF remainingHours = 0 THEN Plural(days, "day")
                      ELSE ToString(days) \o "d " \o ToString(remainingHours) \o "h"

\* The arguments: null or a whole number of minutes.
MinuteArgs == {Undefined} \cup {Some(m) : m \in 0..MaxMinutes}

FormatIdle == fmt = [fn |-> "none", minutes |-> Undefined, result |-> ""]

\* The argument of the call to come.
FormatInit ==
    fmt \in {[fn |-> "none", minutes |-> minutes, result |-> ""] :
                minutes \in MinuteArgs}

CallGetLengthCategory ==
    /\ fmt.fn = "none"
    /\ fmt' = [fmt EXCEPT !.fn = "getLengthCategory",
                          !.result = getLengthCategory(fmt.minutes)]
    /\ UNCHANGED <<filterVars, retryVars, bo, cl, pg, client, lim>>

CallFormatPlayTime ==
    /\ fmt.fn = "none"
    /\ fmt' = [fmt EXCEPT !.fn = "formatPlayTime",
                          !.result = formatPlayTime(fmt.minutes)]
    /\ UNCHANGED <<filterVars, retryVars, bo, cl, pg, client, lim>>

FormatNext ==
    \/ CallGetLengthCategory
    \/ CallFormatPlayTime

(***************************************************************************)
(* RateLimiter (src/src/api/utils.ts, lines 306-338).  Time is a counter   *)
(* of milliseconds that never goes back; the two Date.now() reads of one   *)
(* synchronous getTimeUntilNextRequest() call give the same millisecond.   *)
(* Each caller is a piece of asynchronous code that may be suspended       *)
(* between its canMakeRequest() and its recordRequest().                   *)
(***************************************************************************)
MaxRequestsBound == 2
MaxWindowMs == 2
MaxNow == 4
MaxRecorded == 3

\* One caller, or two whose steps interleave.
CallerCounts == {1, 2}

\* A variant of the filter's test that drops a timestamp one millisecond
\* early.
StillCounts_early(now, time, windowMs) == now - time < windowMs - 1

\* now - time < this.windowMs
StillCounts(now, time, windowMs) == now - time < windowMs

\* this.requests.filter((time) => now - time < this.windowMs)
FilterRequests(requests, now, windowMs) ==
    SelectSeq(requests, LAMBDA time : StillCounts(now, time, windowMs))

\* A variant of the comparison that always allows.
BelowLimit_always(requests, maxRequests) == TRUE

\* this.requests.length < this.maxRequests
BelowLimit(requests, maxRequests) == Len(requests) < maxRequests

\* Math.min(...this.requests): Infinity for no argument.
MinOfRequests(requests) ==
    IF requests = <<>> THEN Infinity
    ELSE Fin(CHOOSE t \in {requests[i] : i \in 1..Len(requests)} :
                \A i \in 1..Len(requests) : t <= requests[i])

\* this.windowMs - (Date.now() - oldestRequest)
TimeUntil(requests, now, windowMs) ==
    LET oldestRequest == MinOfRequests(requests)
    IN  IF oldestRequest.k = "inf" THEN Infinity
        ELSE Fin(windowMs - (now - oldestRequest.v))

LimiterIdle ==
    lim = [maxRequests |-> 0, windowMs |-> 1, now |-> 0, requests |-> <<>>,
          recorded |-> <<>>, callers |-> <<>>, careful |-> TRUE,
          last |-> [kind |-> "idle"]]

\* new RateLimiter(maxRequests, windowMs), and who uses it: one caller or
\* several, all of them recording only after an allowing canMakeRequest()
\* (careful) or not.
LimiterInit ==
    lim \in {[maxRequests |-> m, windowMs |-> w, now |-> 0, requests |-> <<>>,
             recorded |-> <<>>, callers |-> [c \in 1..n |-> "idle"],
             careful |-> careful, last |-> [kind |-> "none"]] :
                m \in 0..MaxRequestsBound, w \in 1..MaxWindowMs,
                n \in CallerCounts, careful \in BOOLEAN}

\* Time passes.
LimiterTick ==
    /\ lim.now < MaxNow
    /\ lim' = [lim EXCEPT !.now = @ + 1]
    /\ UNCHANGED <<filterVars, retryVars, bo, cl, pg, client, fmt>>

\* canMakeRequest() by a caller: the old timestamps are dropped and the
\* answer is kept by the caller.
CanMakeRequest ==
    /\ \E c \in DOMAIN lim.callers :
        LET kept == FilterRequests(lim.requests, lim.now, lim.windowMs)
            answer == BelowLimit(kept, lim.maxRequests)
        IN  lim' = [lim EXCEPT
                    !.requests = kept,
                    !.callers[c] = IF answer THEN "allowed" ELSE "idle",
                    !.last = [kind |-> "canMakeRequest", caller |-> c,
                              at |-> lim.now, answer |-> answer,
                              result |-> Fin(0)]]
    /\ UNCHANGED <<filterVars, retryVars, bo, cl, pg, client, fmt>>

\* recordRequest() by a caller whose last canMakeRequest() allowed it.
RecordRequest ==
    /\ Len(lim.recorded) < MaxRecorded
    /\ \E c \in DOMAIN lim.callers :
        /\ lim.callers[c] = "allowed"
        /\ lim' = [lim EXCEPT
                    !.requests = Append(@, lim.now),
                    !.recorded = Append(@, lim.now),
                    !.callers[c] = "idle",
                    !.last = [kind |-> "recordRequest", caller |-> c,
                              at |-> lim.now, answer |-> TRUE,
                              result |-> Fin(0)]]
    /\ UNCHANGED <<filterVars, retryVars, bo, cl, pg, client, fmt>>

\* recordRequest() by a caller that did not ask, or was not allowed.
RecordUnasked ==
    /\ ~lim.careful
    /\ Len(lim.recorded) < MaxRecorded
    /\ \E c \in DOMAIN lim.callers :
        /\ lim.callers[c] = "idle"
        /\ lim' = [lim EXCEPT
                    !.requests = Append(@, lim.now),
                    !.recorded = Append(@, lim.now),
                    !.last = [kind |-> "recordRequest", caller |-> c,
                              at |-> lim.now, answer |-> FALSE,
                              result |-> Fin(0)]]
    /\ UNCHANGED <<filterVars, retryVars, bo, cl, pg, client, fmt>>

\* getTimeUntilNextRequest(): canMakeRequest() first (which filters), then
\* 0 or the time left to the oldest kept timestamp.
GetTimeUntilNextRequest ==
    /\ \E c \in DOMAIN lim.callers :
        LET kept == FilterRequests(lim.requests, lim.now, lim.windowMs)
            answer == BelowLimit(kept, lim.maxRequests)
        IN  lim' = [lim EXCEPT
                    !.requests = kept,
                    !.last = [kind |-> "getTimeUntilNextRequest", caller |-> c,
                              at |-> lim.now, answer |-> answer,
                              result |-> IF answer THEN Fin(0)
                                         ELSE TimeUntil(kept, lim.now,
                                                        lim.windowMs)]]
    /\ UNCHANGED <<filterVars, retryVars, bo, cl, pg, client, fmt>>

LimiterNext ==
    \/ LimiterTick
    \/ CanMakeRequest
    \/ RecordRequest
    \/ RecordUnasked
    \/ GetTimeUntilNextRequest

(***************************************************************************)
(* Specifications                                                          *)
(***************************************************************************)
FilterIdle ==
    /\ fcall = [fn |-> "none"]
    /\ fresult = NoValue
    /\ fthrown = "none"

RetryIdle ==
    /\ config = defaultRetryConfig
    /\ pc = "idle"
    /\ attempt = 1
    /\ lastError = Undefined
    /\ outcomes = <<>>
    /\ sleeps = <<>>
    /\ thrownError = Undefined
    /\ returned = Undefined
    /\ cancelled = Undefined

BackoffIdle == bo = [config |-> defaultRetryConfig, attempt |-> 0, delays |-> <<>>]

Init ==
    /\ FilterIdle
    /\ RetryInit
    /\ BackoffIdle
    /\ ClassifyIdle
    /\ PagesIdle
    /\ ClientIdle
    /\ FormatIdle
    /\ LimiterIdle
Next == RetryNext
Spec == Init /\ [][Next]_vars

FilterInit ==
    /\ FilterIdle
    /\ RetryIdle
    /\ BackoffIdle
    /\ ClassifyIdle
    /\ PagesIdle
    /\ ClientIdle
    /\ FormatIdle
    /\ LimiterIdle
SpecFilter == FilterInit /\ [][FilterNext]_vars

BackoffSpecInit ==
    /\ FilterIdle
    /\ RetryIdle
    /\ BackoffInit
    /\ ClassifyIdle
    /\ PagesIdle
    /\ ClientIdle
    /\ FormatIdle
    /\ LimiterIdle
SpecBackoff == BackoffSpecInit /\ [][BackoffNext]_vars

ClassifyInit ==
    /\ FilterIdle
    /\ RetryIdle
    /\ BackoffIdle
    /\ ClassifyIdle
    /\ PagesIdle
    /\ ClientIdle
    /\ FormatIdle
    /\ LimiterIdle
SpecClassify == ClassifyInit /\ [][ClassifyNext]_vars

\* The continuation of a settled promise is run, and queryFn settles: the
\* run of getAllResults is not left suspended for ever.
PagesSpecInit ==
    /\ FilterIdle
    /\ RetryIdle
    /\ BackoffIdle
    /\ ClassifyIdle
    /\ PagesInit
    /\ ClientIdle
    /\ FormatIdle
    /\ LimiterIdle
SpecPages == PagesSpecInit /\ [][PagesNext]_vars /\ WF_vars(PagesNext)

ClientSpecInit ==
    /\ FilterIdle
    /\ RetryIdle
    /\ BackoffIdle
    /\ ClassifyIdle
    /\ PagesIdle
    /\ ClientInit
    /\ FormatIdle
    /\ LimiterIdle
SpecClient == ClientSpecInit /\ [][ClientNext]_vars

FormatSpecInit ==
    /\ FilterIdle
    /\ RetryIdle
    /\ BackoffIdle
    /\ ClassifyIdle
    /\ PagesIdle
    /\ ClientIdle
    /\ FormatInit
    /\ LimiterIdle
SpecFormat == FormatSpecInit /\ [][FormatNext]_vars

LimiterSpecInit ==
    /\ FilterIdle
    /\ RetryIdle
    /\ BackoffIdle
    /\ ClassifyIdle
    /\ PagesIdle
    /\ ClientIdle
    /\ FormatIdle
    /\ LimiterInit
SpecLimiter == LimiterSpecInit /\ [][LimiterNext]_vars

(***************************************************************************)
(* Claims about the filter builders (checked under SpecFilter)             *)
(***************************************************************************)
IsCombinatorCall == fcall.fn \in {"and", "or"}
IsRangeCall == fcall.fn \in {"byDateRange", "byRatingRange"}
IsNameCall == fcall.fn \in {"byId", "byLanguage", "byPlatform"}

C2_EmptyCallFails ==
    (\/ (IsCombinatorCall /\ Len(fcall.filters) = 0)
     \/ (IsRangeCall /\ fcall.lower = Undefined /\ fcall.upper = Undefined)) =>
        /\ fthrown = "VndbValidationError"
        /\ fresult = NoValue

\* C3: with two or more children, and()/or() return the tag followed by the
\* children in the order given: none dropped, duplicated, sorted or flattened.
C3_ChildrenKeepOrder ==
    (IsCombinatorCall /\ Len(fcall.filters) >= 2) =>
        /\ fthrown = "none"
        /\ Len(fresult) = Len(fcall.filters) + 1
        /\ fresult[1] = fcall.fn
        /\ \A i \in 1..Len(fcall.filters) : fresult[i + 1] = fcall.filters[i]

C3_Witness ==
    /\ fcall.fn = "or"
    /\ Len(fcall.filters) = 3
    /\ fcall.filters[1] # fcall.filters[3]
    /\ Len(fcall.filters[2]) = 3 /\ fcall.filters[2][1] = "or"
    /\ fresult[3] = fcall.filters[2]

\* The result the range builders owe for the bounds that count as given.
RangeResult(field, lowerGiven, upperGiven, lower, upper) ==
    IF lowerGiven /\ upperGiven
    THEN <<"and", <<field, ">=", lower[1]>>, <<field, "<=", upper[1]>>>>
    ELSE IF lowerGiven THEN <<field, ">=", lower[1]>>
    ELSE <<field, "<=", upper[1]>>

\* C4 as stated: the range builders build one comparison per bound that is
\* given, for every bound value including 0 and the empty string: both bounds
\* give ["and", lower comparison, upper comparison], one bound gives the bare
\* comparison.
C4_RangePerGivenBound ==
    (IsRangeCall /\ (fcall.lower # Undefined \/ fcall.upper # Undefined)) =>
        fresult = RangeResult(fcall.field, fcall.lower # Undefined,
                              fcall.upper # Undefined, fcall.lower, fcall.upper)

\* Whether a bound counts: byRatingRange counts every number, 0 included;
\* byDateRange counts every string but the empty one.
BoundCounts(b) ==
    /\ b # Undefined
    /\ (fcall.fn = "byDateRange" => b[1] # "")

\* C4 as amended: byRatingRange builds one comparison per bound that is given,
\* 0 included; byDateRange builds one per bound that is given and is not the
\* empty string, which it treats as not given.  Two such bounds give
\* ["and", lower comparison, upper comparison] in that order, exactly one gives
\* the bare comparison.
C4_RangePerCountedBound ==
    (IsRangeCall /\ (BoundCounts(fcall.lower) \/ BoundCounts(fcall.upper))) =>
        /\ fthrown = "none"
        /\ fresult = RangeResult(fcall.field, BoundCounts(fcall.lower),
                                 BoundCounts(fcall.upper), fcall.lower, fcall.upper)

C4_Witness ==
    /\ fcall.fn = "byRatingRange"
    /\ fcall.lower = Some(0)
    /\ fcall.upper = Some(95)
    /\ fresult = <<"and", <<"rating", ">=", 0>>, <<"rating", "<=", 95>>>>

\* C5: byId, byLanguage and byPlatform return [field, "=", x] for a single
\* string x and for a list of one element, and for a list of n >= 2 elements
\* ["or", [field, "=", x1], ..., [field, "=", xn]] in input order.
C5_NameFilters ==
    IsNameCall =>
        /\ fthrown = "none"
        /\ (fcall.arg.type = "string" =>
                fresult = <<fcall.field, "=", fcall.arg.val>>)
        /\ (fcall.arg.type = "array" /\ Len(fcall.arg.val) = 1 =>
                fresult = <<fcall.field, "=", fcall.arg.val[1]>>)
        /\ (fcall.arg.type = "array" /\ Len(fcall.arg.val) >= 2 =>
                /\ Len(fresult) = Len(fcall.arg.val) + 1
                /\ fresult[1] = "or"
                /\ \A i \in 1..Len(fcall.arg.val) :
                       fresult[i + 1] = <<fcall.field, "=", fcall.arg.val[i]>>)

C5_Witness ==
    /\ fcall.fn = "byId"
    /\ fcall.arg = [type |-> "array", val |-> <<"v17", "v11">>]
    /\ fresult = <<"or", <<"id", "=", "v17">>, <<"id", "=", "v11">>>>

\* C6: byId with an empty list of ids fails with VndbValidationError and
\* returns no filter, in particular not a childless ["or"].
C6_EmptyIdListFails ==
    (fcall.fn = "byId" /\ fcall.arg.type = "array" /\ Len(fcall.arg.val) = 0) =>
        /\ fthrown = "VndbValidationError"
        /\ fresult = NoValue

IsServer5xx(e) ==
    /\ e.class = "VndbApiError"
    /\ e.status # Undefined
    /\ e.status[1] >= 500
    /\ e.status[1] < 600

AllInvocationsFailWith5xx ==
    /\ outcomes # <<>>
    /\ \A i \in 1..Len(outcomes) : IsServer5xx(outcomes[i])

\* C8: under the default retry predicate and for every maxRetries >= 0, an
\* operation that fails on every invocation with a 5xx VndbApiError is never
\* invoked more than maxRetries + 1 times, a further invocation is pending
\* until that number is reached, and then withRetry throws the error of the
\* last invocation; with maxRetries = 0 that is after one invocation and no
\* wait.
C8_AlwaysFailingIsInvokedMaxRetriesPlusOne ==
    (config.retryCondition = "default" /\ config.maxRetries >= 0
     /\ AllInvocationsFailWith5xx) =>
        /\ Len(outcomes) <= config.maxRetries + 1
        /\ pc \in {"sleeping", "loop", "thrown"}
        /\ (pc = "thrown" <=> Len(outcomes) = config.maxRetries + 1)
        /\ (pc = "thrown" => thrownError = Some(outcomes[Len(outcomes)]))
        /\ (config.maxRetries = 0 => sleeps = <<>> /\ Len(outcomes) = 1)

C8_Witness ==
    /\ config.retryCondition = "default"
    /\ config.maxRetries = 2
    /\ AllInvocationsFailWith5xx
    /\ pc = "thrown"
    /\ Len(outcomes) = 3
    /\ outcomes[1] # outcomes[3]
    /\ thrownError = Some(outcomes[3])

\* C9: under the default retry policy an operation that fails with a
\* VndbValidationError is invoked exactly once: the predicate rejects the
\* error, no wait happens and the error propagates.
C9_ValidationErrorIsNotRetried ==
    (config.retryCondition = "default" /\ config.maxRetries >= 0
     /\ outcomes # <<>> /\ outcomes[1] = VndbValidationError) =>
        /\ Len(outcomes) = 1
        /\ sleeps = <<>>
        /\ pc = "thrown"
        /\ thrownError = Some(VndbValidationError)

C9_Witness ==
    /\ config = defaultRetryConfig
    /\ outcomes = <<VndbValidationError>>
    /\ pc = "thrown"
    /\ thrownError = Some(VndbValidationError)

(***************************************************************************)
(* Claims about calculateBackoffDelay (checked under SpecBackoff)          *)
(***************************************************************************)
\* min(cap, x * m^k) over the integers for m >= 1, never forming a product
\* above cap * m.
RECURSIVE ClampedGrowth(_, _, _, _)
ClampedGrowth(x, m, k, cap) ==
    IF x >= cap THEN cap
    ELSE IF k = 0 THEN x
    ELSE ClampedGrowth(x * m, m, k - 1, cap)

DefaultSchedule == <<1000, 2000, 4000, 8000, 16000, 30000>>

\* C10: for every attempt number N >= 1 and every config the delay equals
\* min(maxDelay, baseDelay * backoffMultiplier^(N-1)); the default delays give
\* 1000, 2000, 4000, 8000, 16000, 30000 for attempts 1..6; and for a
\* multiplier above 1 the delay never exceeds maxDelay and never decreases
\* as N grows.
C10_DelayIsClampedExponential ==
    \A n \in 1..Len(bo.delays) :
        LET c == bo.config
            d == bo.delays[n]
        IN  /\ d = Fin(ClampedGrowth(c.baseDelay, c.backoffMultiplier, n - 1,
                                     c.maxDelay))
            /\ (c.baseDelay = 1000 /\ c.backoffMultiplier = 2
                /\ c.maxDelay = 30000 /\ n <= 6 => d = Fin(DefaultSchedule[n]))
            /\ (c.backoffMultiplier > 1 =>
                    /\ d.k = "fin" /\ d.v <= c.maxDelay
                    /\ (n > 1 => bo.delays[n - 1].k = "fin"
                                 /\ bo.delays[n - 1].v <= d.v))

(***************************************************************************)
(* Further claims about withRetry (checked under Spec)                     *)
(***************************************************************************)
\* C11: when the failure that is retried is rate-limited (status 429) and
\* carries a wait hint of s seconds, s >= 0, the wait before the next attempt
\* is s * 1000 ms on every attempt number; without a hint it is the computed
\* backoff.
C11_HintReplacesBackoff ==
    \A i \in 1..Len(sleeps) :
        LET e == outcomes[i]
        IN  IF e.status = Some(429) /\ e.retryAfter # Undefined
            THEN sleeps[i] = Fin(e.retryAfter[1] * 1000)
            ELSE sleeps[i] = calculateBackoffDelay(i, config)

IsResolved(o) == o.class = "none"

\* C12: withRetry returns the result of the first invocation that succeeds
\* and invokes nothing after it; when it ends in failure, having invoked the
\* operation, it throws exactly the error of its last invocation.
C12_FirstSuccessOrLastFailure ==
    /\ \A i \in 1..Len(outcomes) :
          IsResolved(outcomes[i]) =>
              /\ i = Len(outcomes)
              /\ pc = "returned"
              /\ returned = Some(outcomes[i].value)
    /\ (pc = "returned" =>
           /\ outcomes # <<>>
           /\ IsResolved(outcomes[Len(outcomes)])
           /\ thrownError = Undefined)
    /\ (pc = "thrown" /\ config.maxRetries >= 0 =>
           /\ outcomes # <<>>
           /\ ~IsResolved(outcomes[Len(outcomes)])
           /\ thrownError = Some(outcomes[Len(outcomes)])
           /\ returned = Undefined)

C12_Witness ==
    /\ pc = "thrown"
    /\ Len(outcomes) = 3
    /\ outcomes[1] # outcomes[3]
    /\ outcomes[2] # outcomes[3]
    /\ thrownError = Some(outcomes[3])

(***************************************************************************)
(* Claims about error classification (checked under SpecClassify)          *)
(***************************************************************************)
StatusIs(e, n) == e.status # Undefined /\ e.status[1] = n
StatusIn(e, lo, hi) ==
    e.status # Undefined /\ e.status[1] >= lo /\ e.status[1] < hi
IsClassified(e) ==
    e.class \in {"VndbApiError", "VndbRateLimitError", "VndbAuthenticationError"}

\* C13: the default retryCondition is true if and only if the error is a
\* classified VndbApiError that is server-side (5xx) or rate-limited (429),
\* or a non-classified object whose code is ECONNRESET, ENOTFOUND or
\* ECONNREFUSED; it is false for every other value.
C13_RetryConditionIff ==
    cl.examined =>
        (cl.retryCondition <=>
            \/ (IsClassified(cl.error)
                /\ (StatusIn(cl.error, 500, 600) \/ StatusIs(cl.error, 429)))
            \/ (~IsClassified(cl.error)
                /\ cl.error.class \notin {"null", "primitive"}
                /\ cl.error.code # Undefined
                /\ cl.error.code[1] \in {"ECONNRESET", "ENOTFOUND", "ECONNREFUSED"}))

\* C14: for every VndbApiError and every status, absent included:
\* isRateLimit iff status = 429, isAuthError iff status = 401, isClientError
\* iff 400 <= status < 500, isServerError iff 500 <= status < 600; so client
\* and server are never both true, rate-limit or auth imply client, and a
\* status of 600 or more or an absent status makes all four false.
C14_FacetsOfStatus ==
    (cl.examined /\ IsClassified(cl.error)) =>
        /\ (cl.isRateLimit <=> StatusIs(cl.error, 429))
        /\ (cl.isAuthErrorGetter <=> StatusIs(cl.error, 401))
        /\ (cl.isClientError <=> StatusIn(cl.error, 400, 500))
        /\ (cl.isServerError <=> StatusIn(cl.error, 500, 600))
        /\ ~(cl.isClientError /\ cl.isServerError)
        /\ (cl.isRateLimit \/ cl.isAuthErrorGetter => cl.isClientError)
        /\ (cl.error.status = Undefined \/ ~StatusIn(cl.error, 0, 600) =>
                /\ ~cl.isRateLimit /\ ~cl.isAuthErrorGetter
                /\ ~cl.isClientError /\ ~cl.isServerError)

\* C15: friendlyMessage is the fixed text of the first matching rule in the
\* order 429, 401, 400, 404, server error (5xx), whatever message the error
\* was constructed with, and the construction message for every other or
\* absent status.
C15_FriendlyMessageByRule ==
    (cl.examined /\ IsClassified(cl.error)) =>
        cl.friendlyMessage =
            (IF StatusIs(cl.error, 429) THEN RateLimitText
             ELSE IF StatusIs(cl.error, 401) THEN AuthText
             ELSE IF StatusIs(cl.error, 400) THEN BadRequestText
             ELSE IF StatusIs(cl.error, 404) THEN NotFoundText
             ELSE IF StatusIn(cl.error, 500, 600) THEN ServerErrorText
             ELSE cl.message)

\* C16: isRateLimitError(e) is true exactly when e is a VndbRateLimitError or
\* a VndbApiError with status 429, isAuthError(e) exactly when e is a
\* VndbAuthenticationError or a VndbApiError with status 401; both are false
\* for every other value, and the two subclasses always carry status 429 and
\* 401.
C16_TypeCheckHelpers ==
    cl.examined =>
        /\ (cl.isRateLimitError <=>
                \/ cl.error.class = "VndbRateLimitError"
                \/ (IsClassified(cl.error) /\ StatusIs(cl.error, 429)))
        /\ (cl.isAuthError <=>
                \/ cl.error.class = "VndbAuthenticationError"
                \/ (IsClassified(cl.error) /\ StatusIs(cl.error, 401)))
        /\ (cl.error.class = "VndbRateLimitError" => StatusIs(cl.error, 429))
        /\ (cl.error.class = "VndbAuthenticationError" => StatusIs(cl.error, 401))

C16_Witness ==
    /\ cl.examined
    /\ cl.error.class = "VndbApiError"
    /\ StatusIs(cl.error, 401)
    /\ cl.isAuthError
    /\ ~cl.isRateLimitError

(***************************************************************************)
(* Claims about getAllResults (checked under SpecPages)                    *)
(***************************************************************************)
RECURSIVE ConcatResults(_)
ConcatResults(rs) ==
    IF rs = <<>> THEN <<>> ELSE rs[1].results \o ConcatResults(Tail(rs))

PagesCap == IF pg.maxPages > 0 THEN pg.maxPages ELSE 0

PagesSettled == pg.pc \in {"returned", "rejected"}

C17_PagesInOrder ==
    /\ \A i \in 1..Len(pg.calls) : pg.calls[i] = i
    /\ Len(pg.calls) <= PagesCap
    /\ Len(pg.calls) - Len(pg.responses) =
          (IF pg.pc \in {"awaiting", "rejected"} THEN 1 ELSE 0)
    /\ \A i \in 1..Len(pg.responses) :
          ~pg.responses[i].more => Len(pg.calls) = i
    /\ (pg.pc = "returned" =>
           /\ pg.returned = Some(ConcatResults(pg.responses))
           /\ \/ Len(pg.calls) = PagesCap
              \/ ~pg.responses[Len(pg.responses)].more)

\* C17: getAllResults calls queryFn one call at a time with the pages
\* 1, 2, 3, ... without gaps or repeats, makes no call after the first
\* response whose more is false, makes at most maxPages calls (none when
\* maxPages <= 0), always terminates, and returns the concatenation of the
\* fetched pages' results in page order.
C17_PagesFetchedInOrderAndTerminates ==
    /\ [] C17_PagesInOrder
    /\ <> PagesSettled

C17_Witness ==
    /\ pg.pc = "returned"
    /\ Len(pg.calls) = 2
    /\ pg.maxPages = 3
    /\ pg.responses[1].results # <<>>
    /\ pg.responses[2].results # <<>>
    /\ pg.responses[1].results # pg.responses[2].results

(***************************************************************************)
(* Claims about VndbClient (checked under SpecClient)                      *)
(***************************************************************************)
\* C18: every failure of a client request reaches the caller as a value the
\* type-check helpers recognise: isVndbError is true for it, isRateLimitError
\* when the HTTP status was 429 and isAuthError when it was 401.
C18_FailuresAreClassified ==
    client.last.kind = "error" =>
        /\ isVndbError(client.last.caught)
        /\ (client.last.failure.status = Some(429) =>
                isRateLimitError(client.last.caught))
        /\ (client.last.failure.status = Some(401) =>
                isAuthError(client.last.caught))

\* C19: a client constructed with rateLimit {requests: R, window: W} issues
\* at most R HTTP requests in any interval of W milliseconds.
C19_AtMostRRequestsPerWindow ==
    \A i \in 1..Len(client.sent) :
        Cardinality({j \in 1..Len(client.sent) :
                        /\ client.sent[j] >= client.sent[i]
                        /\ client.sent[j] < client.sent[i] + client.rateLimit.window})
            <= client.rateLimit.requests

IdsOf(ids) == {ids[i] : i \in 1..Len(ids)}

\* C20: getVisualNovelsByIds(ids) issues no request and returns an empty
\* list when ids is empty; otherwise, for a list of any length, it returns
\* the record of every requested id that exists on the server, using the
\* bare comparison for one id and the disjunction of per-id comparisons for
\* several.
C20_EveryExistingIdIsReturned ==
    client.last.kind = "byIds" =>
        LET ids == client.last.ids
        IN  IF ids = <<>>
            THEN client.last.requests = 0 /\ client.last.returned = {}
            ELSE /\ client.last.requests = 1
                 /\ client.last.returned = IdsOf(ids) \cap client.last.existing
                 /\ LET f == client.last.filters[1]
                    IN  IF Len(ids) = 1
                        THEN f = <<"id", "=", ids[1]>>
                        ELSE /\ f[1] = "or"
                             /\ Len(f) = Len(ids) + 1
                             /\ \A i \in 1..Len(ids) :
                                   f[i + 1] = <<"id", "=", ids[i]>>

(***************************************************************************)
(* Claims about the play-time formatters (checked under SpecFormat)        *)
(***************************************************************************)
CategoryRank(category) ==
    CASE category = "Very short" -> 1
      [] category = "Short" -> 2
      [] category = "Medium" -> 3
      [] category = "Long" -> 4
      [] category = "Very long" -> 5
      [] OTHER -> 0

\* C21: getLengthCategory(null) is "Unknown"; for every non-negative number
\* of minutes the category is one of the five, non-decreasing in minutes,
\* with the band boundaries at 2, 10, 30 and 50 hours, and exactly 600
\* minutes is "Short".
C21_LengthCategoryBands ==
    fmt.fn = "getLengthCategory" =>
        IF fmt.minutes = Undefined THEN fmt.result = "Unknown"
        ELSE LET m == fmt.minutes[1]
                 rank == CategoryRank(fmt.result)
             IN  /\ rank \in 1..5
                 /\ (m > 0 =>
                        CategoryRank(getLengthCategory(Some(m - 1))) <= rank)
                 /\ (m < 120 => rank = 1)
                 /\ (m = 120 => rank \in {1, 2})
                 /\ (m > 120 /\ m < 600 => rank = 2)
                 /\ (m = 600 => fmt.result = "Short")
                 /\ (m > 600 /\ m < 1800 => rank = 3)
                 /\ (m = 1800 => rank \in {3, 4})
                 /\ (m > 1800 /\ m < 3000 => rank = 4)
                 /\ (m = 3000 => rank \in {4, 5})
                 /\ (m > 3000 => rank = 5)

\* C22: for every whole number of minutes m >= 1440, formatPlayTime(m) is
\* "<d>d <h>h" with d = floor(m / 1440) and h = floor(m / 60) mod 24, also
\* when h is 0: formatPlayTime(1440) is "1d 0h".
C22_DaysAndHours ==
    (fmt.fn = "formatPlayTime" /\ fmt.minutes # Undefined
     /\ fmt.minutes[1] >= 1440) =>
        fmt.result = ToString(fmt.minutes[1] \div 1440) \o "d "
                     \o ToString((fmt.minutes[1] \div 60) % 24) \o "h"

(***************************************************************************)
(* Claims about the waits of withRetry (checked under Spec)                *)
(***************************************************************************)
HasHint(error) == isRateLimitError(error) /\ TruthyNum(error.retryAfter)

\* C23: every suspension withRetry performs between two attempts lasts at
\* most config.maxDelay milliseconds, whatever error caused the retry, a
\* rate-limit error with a retryAfter hint included.
C23_EveryWaitWithinMaxDelay ==
    \A i \in 1..Len(sleeps) :
        sleeps[i].k = "fin" /\ sleeps[i].v <= config.maxDelay

\* C23, amended: a suspension lasts at most config.maxDelay milliseconds
\* unless the error retried is a rate-limit error with a retryAfter hint
\* s > 0; the suspension then lasts s * 1000 ms, whatever maxDelay is.
C23_WaitWithinMaxDelayUnlessHinted ==
    \A i \in 1..Len(sleeps) :
        IF HasHint(outcomes[i])
        THEN sleeps[i] = Fin(outcomes[i].retryAfter[1] * 1000)
        ELSE sleeps[i].k = "fin" /\ sleeps[i].v <= config.maxDelay

C23_Witness ==
    /\ Len(sleeps) >= 2
    /\ HasHint(outcomes[1])
    /\ sleeps[1].v > config.maxDelay
    /\ ~HasHint(outcomes[2])
    /\ sleeps[2] = Fin(config.maxDelay)
    /\ calculateBackoffDelay_uncapped(2, config).v > config.maxDelay

\* The retry predicate of the configuration accepts the error.
PredicateAccepts(cfg, error) ==
    cfg.retryCondition = "absent" \/ defaultRetryCondition(error)

\* C24: withRetry suspends only between two consecutive invocations: never
\* before the first one, after a success, after a failure the retry
\* predicate rejects or after the failure of the last permitted attempt;
\* exactly one wait lies between two consecutive invocations, so a finished
\* run has made one wait fewer than invocations.
C24_WaitsOnlyBetweenInvocations ==
    /\ Len(sleeps) <= Len(outcomes)
    /\ Len(outcomes) <= Len(sleeps) + 1
    /\ \A i \in 1..Len(sleeps) :
          /\ ~IsResolved(outcomes[i])
          /\ PredicateAccepts(config, outcomes[i])
          /\ i <= config.maxRetries
    /\ (pc = "sleeping" => Len(sleeps) = Len(outcomes))
    /\ (pc = "loop" => Len(sleeps) = Len(outcomes) /\ attempt = Len(sleeps) + 1)
    /\ (pc \in {"returned", "thrown"} /\ outcomes # <<>> =>
           Len(sleeps) = Len(outcomes) - 1)
    /\ (outcomes = <<>> => sleeps = <<>>)

C24_Witness ==
    /\ pc = "thrown"
    /\ config.retryCondition = "default"
    /\ config.maxRetries = 3
    /\ Len(outcomes) = 3
    /\ outcomes[3] = VndbValidationError
    /\ Len(sleeps) = 2

\* C25: a failure with VndbValidationError is never retried under any retry
\* configuration, a configuration that gives no retryCondition included: the
\* operation is invoked once and the validation error propagates.
C25_ValidationErrorNeverRetried ==
    (config.maxRetries >= 0 /\ outcomes # <<>>
     /\ outcomes[1] = VndbValidationError) =>
        /\ Len(outcomes) = 1
        /\ sleeps = <<>>
        /\ pc = "thrown"
        /\ thrownError = Some(VndbValidationError)

\* C28: the wait of withRetry is cancellable: once the surrounding call is
\* cancelled during a wait, no timer stays pending and the operation is not
\* invoked again.
C28_CancelStopsTheRun ==
    cancelled # Undefined =>
        /\ pc # "sleeping"
        /\ Len(outcomes) = cancelled[1]

(***************************************************************************)
(* A claim about the client's failures under withRetry (SpecClient)        *)
(***************************************************************************)
IsRetryableFailure(failure) ==
    \/ (failure.status # Undefined
        /\ (failure.status[1] = 429
            \/ (failure.status[1] >= 500 /\ failure.status[1] < 600)))
    \/ (failure.code # Undefined
        /\ failure.code[1] \in {"ECONNRESET", "ENOTFOUND", "ECONNREFUSED"})

\* C26: when a client call wrapped in withRetry with the default policy
\* fails with a 5xx status, a 429 status or a connection-level failure, the
\* failure as the client surfaces it is judged retry-eligible, so the call
\* is attempted again while attempts remain.
C26_ClientFailuresAreRetried ==
    (client.last.kind = "error" /\ IsRetryableFailure(client.last.failure)) =>
        /\ defaultRetryCondition(client.last.caught)
        /\ ~RetryRejected(defaultRetryConfig, client.last.caught)

(***************************************************************************)
(* Claims about RateLimiter (checked under SpecLimiter)                    *)
(***************************************************************************)
\* The timestamps ever recorded that lie in [from, from + windowMs).
RecordedInWindow(from) ==
    Cardinality({j \in 1..Len(lim.recorded) :
                    /\ lim.recorded[j] >= from
                    /\ lim.recorded[j] < from + lim.windowMs})

\* The largest number of recorded timestamps in one window; a fullest
\* window can be taken to start at a timestamp.
FullestWindow ==
    IF lim.recorded = <<>> THEN 0
    ELSE LET counts == {RecordedInWindow(lim.recorded[i]) :
                            i \in 1..Len(lim.recorded)}
         IN  CHOOSE n \in counts : \A k \in counts : k <= n

\* C27: the limiter is best-effort under concurrency: two callers that each
\* do canMakeRequest() then recordRequest() can both be allowed before
\* either records, which puts more than maxRequests timestamps in one
\* window; the excess is the one request of the second caller.
C27_RaceExceedsLimitByOne ==
    (Len(lim.callers) = 2 /\ lim.careful) =>
        /\ FullestWindow <= lim.maxRequests + 1
        /\ (lim.maxRequests = 0 => lim.recorded = <<>>)
        /\ (FullestWindow > lim.maxRequests =>
                \E i \in 1..(Len(lim.recorded) - 1) :
                    lim.recorded[i + 1] - lim.recorded[i] < lim.windowMs)

C27_Witness ==
    /\ Len(lim.callers) = 2
    /\ lim.careful
    /\ lim.maxRequests = 1
    /\ lim.recorded = <<0, 0>>
    /\ lim.last.kind = "recordRequest"
    /\ lim.last.answer

\* The recorded timestamps whose age at `time` is below windowMs.
CountingAt(time) ==
    SelectSeq(lim.recorded, LAMBDA t : time - t < lim.windowMs)

\* C29: with a single caller that records only directly after an allowing
\* canMakeRequest(), under a non-decreasing clock, every half-open interval
\* of length windowMs holds at most maxRequests recorded timestamps, and a
\* timestamp stops counting exactly when its age reaches windowMs.
C29_SingleCallerStaysWithinLimit ==
    (Len(lim.callers) = 1 /\ lim.careful) =>
        /\ FullestWindow <= lim.maxRequests
        /\ (lim.last.kind = "canMakeRequest" =>
                /\ lim.requests = CountingAt(lim.last.at)
                /\ (lim.last.answer <=>
                        Len(CountingAt(lim.last.at)) < lim.maxRequests))

C29_Witness ==
    /\ Len(lim.callers) = 1
    /\ lim.careful
    /\ lim.maxRequests = 2
    /\ lim.windowMs = 2
    /\ lim.recorded = <<0, 1, 2>>
    /\ lim.now = 2
    /\ lim.last.kind = "canMakeRequest"
    /\ ~lim.last.answer
    /\ lim.requests = <<1, 2>>

\* canMakeRequest() at `time`, nothing being recorded in the meantime.
WouldAllowAt(time) == Len(CountingAt(time)) < lim.maxRequests

\* C30: for maxRequests >= 0 and windowMs > 0 and after any sequence of
\* calls, getTimeUntilNextRequest() returns 0 exactly when canMakeRequest()
\* would return true; otherwise a finite t with 0 < t <= windowMs such that
\* canMakeRequest() returns true once t milliseconds have elapsed.
C30_TimeUntilNextRequest ==
    lim.last.kind = "getTimeUntilNextRequest" =>
        LET t == lim.last.result
        IN  /\ (t = Fin(0) <=> WouldAllowAt(lim.last.at))
            /\ (~WouldAllowAt(lim.last.at) =>
                    /\ t.k = "fin"
                    /\ t.v > 0
                    /\ t.v <= lim.windowMs
                    /\ WouldAllowAt(lim.last.at + t.v))

====
